---- MODULE Spec2Model ----
(***************************************************************************)
(* Verification model of the listing pipeline:                             *)
(*   - wb_check_coordinates.py : the Zone Classifier pass over the table   *)
(*   - src/main.py             : URL / address normalizers, the source     *)
(*                               scrapers and save_and_check               *)
(* Cell values and characters are ASCII stand-ins for the Cyrillic         *)
(* literals of the source (the tools read ASCII only).                     *)
(***************************************************************************)
EXTENDS Naturals, Integers, Sequences, FiniteSets, TLC

VARIABLES
    \* ---- Zone Classifier (wb_check_coordinates.py) ----
    stored,            \* the workbook file FN_XLSX on disk
    ws,                \* the workbook loaded in memory by main (NoWb when none)
    row_num,           \* loop variable of main
    pc,                \* position of the classifier process
    color_to_write,    \* value main hands to set_status_to_table
    is_need_to_pause,  \* flag of main
    passes,            \* number of passes started so far
    rowLog,            \* history: what the pass did with the row it examined last
    dirty              \* history: rows written into ws since the last successful save

clsVars == <<stored, ws, row_num, pc, color_to_write, is_need_to_pause,
             passes, rowLog, dirty>>

VARIABLES
    \* ---- normalize_url (src/main.py) ----
    url,               \* the argument, a sequence of characters
    norm,              \* normalize_url(url), NotYet before the call
    norm2              \* normalize_url(norm), NotYet before the call

urlVars == <<url, norm, norm2>>

VARIABLES
    \* ---- save_and_check (src/main.py) ----
    records,           \* the argument: the list of scraped rows
    df,                \* the data frame of save_and_check
    keep_rows,         \* history: positions in records of the rows kept
    xlsx,              \* the file OUTPUT_XLSX
    sa_errors,         \* what save_and_check passed to log.error
    checker,           \* history: how the classifier subprocess ended, "none" before it
    sa_pc              \* position in save_and_check

saveVars == <<records, df, keep_rows, xlsx, sa_errors, checker, sa_pc>>

VARIABLES
    \* ---- normalize_address_for_geocoding (src/main.py) ----
    address,           \* the argument address: a sequence of characters, or NoStr
    city,              \* the argument city: a sequence of characters, or NoStr
    formatted          \* the value returned, NotYet before the call

addrVars == <<address, city, formatted>>

VARIABLES
    \* ---- scrape_cian / scrape_avito ----
    scraper,           \* "cian" or "avito": the scraper that runs
    site,              \* the detail pages the site serves in this run
    pages,             \* the argument pages
    page_no,           \* p, the page counter of the outer loop
    empty_pages,       \* search pages without links in a row
    page_log,          \* history: the search pages requested and what came back
    search_site,       \* the link lists the site serves in its search pages
    hrefs,             \* the links found in the search page, in document order
    links,             \* len(links[:40]) of the search page
    link,              \* position of the link being handled
    attempt,           \* the attempt of the retry loop for this link
    status_code,       \* r: what the last session.get of a detail page gave
    back,              \* the last back-off slept, without its jitter
    requests,          \* history: the session.get calls made for one link
    item,              \* what the extractors find in the fetched page
    geo_query,         \* history: the query handed to geocode_address for the last listing
    scraped,           \* the scraper's list records
    scr_pc             \* "search", "fetch", "parse", "done"

scrVars == <<scraper, site, search_site, pages, page_no, empty_pages, page_log, hrefs,
             links, link, attempt,
             status_code, back, requests, item, geo_query, scraped, scr_pc>>

VARIABLES
    \* ---- check_coordinates on its own ----
    reply,             \* what fetch_page hands to check_coordinates
    returned           \* the status check_coordinates returns, NotYet before the call

chkVars == <<reply, returned>>

VARIABLES
    \* ---- geocode_address ----
    geocode_cache,     \* _geocode_cache
    first_result,      \* history: per key the first successful result returned
    last_call,         \* history: the last call, its requests and its result
    calls_made         \* calls of geocode_address in this process

geoVars == <<geocode_cache, first_result, last_call, calls_made>>

VARIABLES
    \* ---- _ensure_coords_and_notes ----
    frame,             \* df, the data frame the function works on
    frame_in,          \* history: df as it was passed
    geocode_limit,     \* the budget: <<>> is None, <<n>> is n
    idx,               \* position of the row of the loop
    updated,           \* rows filled by geocoding so far
    geo_calls,         \* history: the geocode_address calls made
    fill_pc            \* "loop", "done"

fillVars == <<frame, frame_in, geocode_limit, idx, updated, geo_calls, fill_pc>>

vars == <<clsVars, urlVars, saveVars, addrVars, scrVars, fillVars, chkVars, geoVars>>

nonCls  == <<urlVars, saveVars, addrVars, scrVars, fillVars, chkVars, geoVars>>
nonUrl  == <<clsVars, saveVars, addrVars, scrVars, fillVars, chkVars, geoVars>>
nonSave == <<clsVars, urlVars, addrVars, scrVars, fillVars, chkVars, geoVars>>
nonAddr == <<clsVars, urlVars, saveVars, scrVars, fillVars, chkVars, geoVars>>
nonScr  == <<clsVars, urlVars, saveVars, addrVars, fillVars, chkVars, geoVars>>
nonFill == <<clsVars, urlVars, saveVars, addrVars, scrVars, chkVars, geoVars>>
nonChk  == <<clsVars, urlVars, saveVars, addrVars, scrVars, fillVars, geoVars>>
nonGeo  == <<clsVars, urlVars, saveVars, addrVars, scrVars, fillVars, chkVars>>

-----------------------------------------------------------------------------
(* Bounds of the model *)
MaxRows   == 2     \* data rows of the table
MaxPasses == 2     \* classifier passes over the same file (interrupted ones included)

-----------------------------------------------------------------------------
(* settings.py *)
COLUMN_COORDINATES == 23
COLUMN_COLOR       == 26
NCOLUMNS           == 23       \* len(COLUMN_ORDER): width of a freshly saved table

None == "None"
NotYet == "NotYet"

(* wb_check_coordinates.py: the classification strings *)
PURPLE == "fioletovaya"
PINK   == "rozovaya"
GREEN  == "zelenaya"
RED    == "krasnaya"
PVZ    == "s deistvuyushchim ili otkryvayushchimsya PVZ"
NA     == "N/A"
ERROR  == "ERROR"

RED_DESCRIPTION == "Tochka popadaet v krasnuyu zonu"
PVZ_DESCRIPTION == "Tochka popadaet v zdanie s deistvuyushchim ili otkryvayushchimsya PVZ"

PURPLE_FILL == "9966CC"
PINK_FILL   == "FFB6C1"
NoFill      == "00000000"

Terminal == {PURPLE, PINK}

NoWb == [rows |-> <<>>, max_column |-> 0, loaded |-> FALSE]

NoEntry == [row |-> 0, note |-> FALSE, prev |-> None, act |-> "none",
            response |-> <<>>]

-----------------------------------------------------------------------------
(* The zone-lookup replies fetch_page can hand to check_coordinates:       *)
(* NoResponse after five failed tries (or the nothing-found reply), else   *)
(* the parsed JSON of the service, of which only the inspected keys are    *)
(* kept: fetched says the service answered, ok that the answer is truthy   *)
(* (an empty JSON object is not), point_info whether that key holds an     *)
(* object or null.                                                          *)
NoResponse == [fetched |-> FALSE, ok |-> FALSE, description |-> "",
               point_info |-> "object", priority |-> None, zone |-> None]

EmptyReply == [NoResponse EXCEPT !.fetched = TRUE]

Responses ==
    [fetched : {TRUE},
     ok : {TRUE},
     description : {"", RED_DESCRIPTION, PVZ_DESCRIPTION, "Tochka popadaet v zelenuyu zonu"},
     point_info : {"object", "null"},
     priority : {None, "new_build_zones", "load_predict", "other_zone"},
     zone : {None, "green_zone", "other_zone"}]

fetch_page == {NoResponse, EmptyReply} \cup Responses

(* The replies the service gives in the modelled passes: none at all, a     *)
(* priority zone of either kind, and the general green zone.                *)
Reply(priority, zone) ==
    [fetched |-> TRUE, ok |-> TRUE, description |-> "", point_info |-> "object",
     priority |-> priority, zone |-> zone]

PassReplies ==
    {NoResponse, Reply("new_build_zones", "green_zone"), Reply("load_predict", None),
     Reply(None, "green_zone")}

(* the general zone code looked at before the priority zone *)
check_coordinates_ZoneFirst(response) ==
    IF ~response.ok THEN ERROR
    ELSE IF response.description = RED_DESCRIPTION THEN RED
    ELSE IF response.description = PVZ_DESCRIPTION THEN PVZ
    ELSE IF response.point_info = "null" THEN NA
    ELSE IF response.zone = "green_zone" THEN GREEN
    ELSE IF response.priority = "new_build_zones" THEN PINK
    ELSE IF response.priority = "load_predict" THEN PURPLE
    ELSE NA

(* check_coordinates, lines 60-90; a point_info that is null makes line 72  *)
(* raise, which the except of line 88 turns into the return of line 90      *)
check_coordinates(response) ==
    IF ~response.ok THEN ERROR
    ELSE IF response.description = RED_DESCRIPTION THEN RED
    ELSE IF response.description = PVZ_DESCRIPTION THEN PVZ
    ELSE IF response.point_info = "null" THEN NA
    ELSE IF response.priority = "new_build_zones" THEN PINK
    ELSE IF response.priority = "load_predict" THEN PURPLE
    ELSE IF response.zone = "green_zone" THEN GREEN
    ELSE NA

(* the status written as check_coordinates returned it *)
ColorToWrite_AsReturned(color) == color

(* main, lines 119-123: normalisation of the status before it is written *)
ColorToWrite(color) ==
    IF color \in {"", ERROR, "NO_POINT_INFO"} THEN NA ELSE color

-----------------------------------------------------------------------------
(* The worksheet.  A row keeps the cells the classifier touches: the        *)
(* coordinate note (column COLUMN_COORDINATES), the cell of column 2, the   *)
(* classification (column COLUMN_COLOR) and the fill of its cells, those of *)
(* columns 1..NCOLUMNS and those of columns NCOLUMNS+1..COLUMN_COLOR.       *)
NOTE == "lat = 55, lng = 37"

FreshRow(coordinates, col2) ==
    [coordinates |-> coordinates, col2 |-> col2, color |-> None,
     fill |-> NoFill, fillColor |-> NoFill]

(* Rows of a table save_and_check wrote and nobody classified yet: without *)
(* and with a coordinate note; column 2 is external_id, an id or empty.    *)
FreshRows == {FreshRow(None, "id"), FreshRow(NOTE, "id"), FreshRow(NOTE, None)}

FreshTables ==
    { [rows |-> rs, max_column |-> NCOLUMNS, loaded |-> TRUE] :
        rs \in UNION { [1..n -> FreshRows] : n \in 1..MaxRows } }

row_count(wb) == Len(wb.rows) + 1      \* ws.max_row: the header plus the data rows
Row(wb, r) == wb.rows[r - 1]           \* sheet row r (row 1 is the header)

(* main, line 111: the cell compared with the terminal zones *)
prev_color(wb, r) == Row(wb, r).col2

(* set_status_to_table, lines 25-38, on the in-memory workbook *)
SetCells(wb, r, color) ==
    LET selected_fill == IF color = PURPLE THEN PURPLE_FILL
                         ELSE IF color = PINK THEN PINK_FILL
                         ELSE None
        max_column == wb.max_column
        old == Row(wb, r)
        filled == IF selected_fill = None THEN old
                  ELSE [old EXCEPT !.fill = selected_fill,
                                   !.fillColor = IF max_column >= COLUMN_COLOR
                                                 THEN selected_fill ELSE @]
    IN [wb EXCEPT !.rows[r - 1] = [filled EXCEPT !.color = color],
                  !.max_column = IF @ < COLUMN_COLOR THEN COLUMN_COLOR ELSE @]

-----------------------------------------------------------------------------
(* Zone Classifier process *)
ClsIdle ==
    /\ stored = NoWb
    /\ ws = NoWb
    /\ row_num = 0
    /\ pc = "idle"
    /\ color_to_write = None
    /\ is_need_to_pause = FALSE
    /\ passes = 0
    /\ rowLog = NoEntry
    /\ dirty = {}

UrlIdle == url = <<>> /\ norm = NotYet /\ norm2 = NotYet

NoFile == [exists |-> FALSE, rows |-> <<>>]

SaveIdle ==
    /\ records = <<>> /\ df = <<>> /\ keep_rows = <<>>
    /\ xlsx = NoFile /\ sa_errors = <<>> /\ checker = "none" /\ sa_pc = "idle"

AddrIdle == address = <<>> /\ city = <<>> /\ formatted = NotYet

NoRequests == [p |-> 0, link |-> 0, href |-> 0, n |-> 0]

ScrIdle ==
    /\ scraper = None /\ site = {} /\ search_site = {} /\ pages = 0 /\ page_no = 0
    /\ empty_pages = 0 /\ page_log = <<>> /\ hrefs = <<>> /\ links = 0
    /\ link = 0 /\ attempt = 0 /\ status_code = None
    /\ back = 0 /\ requests = NoRequests
    /\ item = None /\ geo_query = <<>> /\ scraped = <<>> /\ scr_pc = "idle"

FillIdle ==
    /\ frame = <<>> /\ frame_in = <<>> /\ geocode_limit = <<>> /\ idx = 0
    /\ updated = 0 /\ geo_calls = <<>> /\ fill_pc = "idle"

ChkIdle == reply = NoResponse /\ returned = "idle"

NoCall == [key |-> None, cached |-> FALSE, requests |-> 0, result |-> None]

GeoIdle ==
    /\ geocode_cache = <<>> /\ first_result = <<>> /\ last_call = NoCall
    /\ calls_made = 0

ClsInit ==
    /\ UrlIdle
    /\ SaveIdle
    /\ AddrIdle
    /\ ScrIdle
    /\ FillIdle
    /\ ChkIdle
    /\ GeoIdle
    /\ stored \in FreshTables
    /\ ws = NoWb
    /\ row_num = 0
    /\ pc = "idle"
    /\ color_to_write = None
    /\ is_need_to_pause = FALSE
    /\ passes = 0
    /\ rowLog = NoEntry
    /\ dirty = {}

(* main, lines 96-102: load the file and start at row 2 *)
StartPass ==
    /\ pc \in {"idle", "done", "killed"}
    /\ passes < MaxPasses
    /\ passes' = passes + 1
    /\ ws' = stored
    /\ row_num' = 2
    /\ is_need_to_pause' = FALSE
    /\ color_to_write' = None
    /\ rowLog' = NoEntry
    /\ dirty' = {}
    /\ pc' = "loop"
    /\ UNCHANGED stored
    /\ UNCHANGED nonCls

LogEntry(r, act) ==
    [row |-> r, note |-> Row(ws, r).coordinates # None,
     prev |-> Row(ws, r).color, act |-> act, response |-> <<>>]

(* main, lines 107-109: no coordinate note *)
SkipNoCoordinates ==
    /\ pc = "loop"
    /\ row_num <= row_count(ws)
    /\ Row(ws, row_num).coordinates = None
    /\ rowLog' = LogEntry(row_num, "skip")
    /\ row_num' = row_num + 1
    /\ UNCHANGED <<stored, ws, pc, color_to_write, is_need_to_pause, passes,
                   dirty>>
    /\ UNCHANGED nonCls

(* main, lines 111-123: a row with a coordinate note is skipped when the    *)
(* cell of column 2 holds a terminal zone, else the zone-lookup service is  *)
(* queried for it and the status is normalised for writing.                 *)
CheckRow ==
    /\ pc = "loop"
    /\ row_num <= row_count(ws)
    /\ Row(ws, row_num).coordinates # None
    /\ IF prev_color(ws, row_num) # None /\ prev_color(ws, row_num) \in Terminal
       THEN /\ rowLog' = LogEntry(row_num, "skip")
            /\ row_num' = row_num + 1
            /\ UNCHANGED <<pc, color_to_write, is_need_to_pause>>
       ELSE /\ is_need_to_pause' = TRUE
            /\ \E response \in PassReplies :
                  /\ color_to_write' = ColorToWrite(check_coordinates(response))
                  /\ rowLog' = [LogEntry(row_num, "query")
                                   EXCEPT !.response = <<response>>]
            /\ pc' = "write"
            /\ UNCHANGED row_num
    /\ UNCHANGED <<stored, ws, passes, dirty>>
    /\ UNCHANGED nonCls

(* set_status_to_table with the save issued before the cells are set *)
set_status_to_table_SaveFirst ==
    /\ pc = "write"
    /\ ws' = SetCells(ws, row_num, color_to_write)
    /\ \E save_ok \in BOOLEAN :
          IF save_ok
          THEN /\ stored' = ws
               /\ dirty' = {}
          ELSE /\ stored' = stored
               /\ dirty' = dirty \cup {row_num}
    /\ row_num' = row_num + 1
    /\ color_to_write' = None
    /\ pc' = "loop"
    /\ UNCHANGED <<is_need_to_pause, passes, rowLog>>
    /\ UNCHANGED nonCls

(* main, line 124 and set_status_to_table, lines 21-43: the cells are set  *)
(* and the workbook is saved; a failed save is logged and swallowed, and    *)
(* main goes on to the next row either way.                                 *)
set_status_to_table ==
    /\ pc = "write"
    /\ ws' = SetCells(ws, row_num, color_to_write)
    /\ \E save_ok \in BOOLEAN :
          IF save_ok
          THEN /\ stored' = ws'
               /\ dirty' = {}
          ELSE /\ stored' = stored
               /\ dirty' = dirty \cup {row_num}
    /\ row_num' = row_num + 1
    /\ color_to_write' = None
    /\ pc' = "loop"
    /\ UNCHANGED <<is_need_to_pause, passes, rowLog>>
    /\ UNCHANGED nonCls

(* main, line 103: the range is exhausted *)
Finish ==
    /\ pc = "loop"
    /\ row_num > row_count(ws)
    /\ pc' = "done"
    /\ ws' = NoWb
    /\ row_num' = 0
    /\ is_need_to_pause' = FALSE
    /\ dirty' = {}
    /\ rowLog' = NoEntry
    /\ UNCHANGED <<stored, color_to_write, passes>>
    /\ UNCHANGED nonCls

(* The process is killed: everything in memory is lost, the file stays *)
Kill ==
    /\ pc \in {"loop", "write"}
    /\ pc' = "killed"
    /\ ws' = NoWb
    /\ row_num' = 0
    /\ color_to_write' = None
    /\ is_need_to_pause' = FALSE
    /\ dirty' = {}
    /\ rowLog' = NoEntry
    /\ UNCHANGED <<stored, passes>>
    /\ UNCHANGED nonCls

PassStep == SkipNoCoordinates \/ CheckRow \/ set_status_to_table \/ Finish

ClsNext == StartPass \/ SkipNoCoordinates \/ CheckRow \/ set_status_to_table
              \/ Finish \/ Kill

Spec == ClsInit /\ [][ClsNext]_vars

ExamineRow == SkipNoCoordinates \/ CheckRow

-----------------------------------------------------------------------------
(* C1: in any pass, a row whose COLUMN_COLOR cell already holds the pink or *)
(* purple value is skipped (not queried, not written), and a row with a     *)
(* coordinate note whose COLUMN_COLOR cell holds anything else is queried.  *)
C1_IdempotentSkip ==
    rowLog.act # "none" =>
        /\ (rowLog.prev \in Terminal => rowLog.act = "skip")
        /\ (rowLog.note /\ rowLog.prev \notin Terminal => rowLog.act = "query")

-----------------------------------------------------------------------------
(* Strings are sequences of one-character strings.                          *)
MaxWww     == 2     \* repeated "www." labels in front of a host
MaxSlashes == 2     \* slashes at the end of a path

UPPER == <<"A", "B", "C", "D", "E", "F", "G", "H", "I", "J", "K", "L", "M", "N", "O", "P", "Q", "R", "S", "T", "U", "V", "W", "X", "Y", "Z">>
LOWER == <<"a", "b", "c", "d", "e", "f", "g", "h", "i", "j", "k", "l", "m", "n", "o", "p", "q", "r", "s", "t", "u", "v", "w", "x", "y", "z">>

(* str.lower, one character *)
LowerOf == [c \in {UPPER[i] : i \in 1..Len(UPPER)} |->
               LOWER[CHOOSE i \in 1..Len(UPPER) : UPPER[i] = c]]

Lower(c) == IF c \in DOMAIN LowerOf THEN LowerOf[c] ELSE c

LowerSeq(s) == <<>> \o [i \in 1..Len(s) |-> Lower(s[i])]

StartsWith(s, p) == Len(s) >= Len(p) /\ SubSeq(s, 1, Len(p)) = p

IsLetter(c) == c \in DOMAIN LowerOf \/ c \in {LOWER[i] : i \in 1..Len(LOWER)}

(* str.find over a set of characters, from position from; 0 when absent *)
Find(s, cs, from) ==
    IF \E i \in from..Len(s) : s[i] \in cs
    THEN CHOOSE i \in from..Len(s) :
             s[i] \in cs /\ \A j \in from..(i - 1) : s[j] \notin cs
    ELSE 0

(* str.rstrip(chars) and str.strip() *)
RStrip(s, cs) ==
    LET keep == {i \in 1..Len(s) : s[i] \notin cs}
    IN IF keep = {} THEN <<>>
       ELSE SubSeq(s, 1, CHOOSE i \in keep : \A j \in keep : j <= i)

LStrip(s, cs) ==
    LET keep == {i \in 1..Len(s) : s[i] \notin cs}
    IN IF keep = {} THEN <<>>
       ELSE SubSeq(s, CHOOSE i \in keep : \A j \in keep : i <= j, Len(s))

Strip(s) == LStrip(RStrip(s, {" "}), {" "})

(* s.split(c, 1)[0] *)
Before(s, c) ==
    LET i == Find(s, {c}, 1) IN IF i = 0 THEN s ELSE SubSeq(s, 1, i - 1)

(* str.replace(old, new): every occurrence, left to right *)
RECURSIVE Replace(_, _, _)
Replace(s, old, new) ==
    IF Len(s) < Len(old) \/ old = <<>> THEN s
    ELSE IF StartsWith(s, old) THEN new \o Replace(SubSeq(s, Len(old) + 1, Len(s)), old, new)
    ELSE <<s[1]>> \o Replace(Tail(s), old, new)

HTTP  == <<"h", "t", "t", "p">>
HTTPS == <<"h", "t", "t", "p", "s">>
WWW   == <<"w", "w", "w", ".">>

(* urllib.parse: the schemes of uses_netloc that the inputs can carry *)
uses_netloc == {<<>>, HTTP, HTTPS}

(* urllib.parse.urlparse as normalize_url calls it: scheme, netloc and path *)
(* of s; error when the netloc holds one square bracket without the other   *)
(* (ValueError).  No input holds ";", so no params are split off the path.  *)
urlparse(s) ==
    LET i == Find(s, {":"}, 1)
        has_scheme == /\ i > 1
                      /\ IsLetter(s[1])
                      /\ \A j \in 1..(i - 1) : IsLetter(s[j]) \/ s[j] \in {"+", "-", ".", "1"}
        scheme == IF has_scheme THEN LowerSeq(SubSeq(s, 1, i - 1)) ELSE <<>>
        rest == IF has_scheme THEN SubSeq(s, i + 1, Len(s)) ELSE s
        has_netloc == StartsWith(rest, <<"/", "/">>)
        delim == IF has_netloc THEN Find(rest, {"/", "?", "#"}, 3) ELSE 0
        netloc == IF ~has_netloc THEN <<>>
                  ELSE IF delim = 0 THEN SubSeq(rest, 3, Len(rest))
                  ELSE SubSeq(rest, 3, delim - 1)
        after == IF ~has_netloc THEN rest
                 ELSE IF delim = 0 THEN <<>>
                 ELSE SubSeq(rest, delim, Len(rest))
        open == \E k \in 1..Len(netloc) : netloc[k] = "["
        close == \E k \in 1..Len(netloc) : netloc[k] = "]"
    IN [scheme |-> scheme, netloc |-> netloc,
        path |-> Before(Before(after, "#"), "?"),
        error |-> (open /\ ~close) \/ (close /\ ~open)]

(* urllib.parse.urlunparse((scheme, netloc, path, '', '', '')) *)
urlunparse(scheme, netloc, path) ==
    LET u1 == IF netloc # <<>> \/ (scheme # <<>> /\ scheme \in uses_netloc
                                    /\ ~StartsWith(path, <<"/", "/">>))
              THEN <<"/", "/">> \o netloc
                     \o (IF path # <<>> /\ path[1] # "/" THEN <<"/">> \o path ELSE path)
              ELSE path
    IN IF scheme # <<>> THEN scheme \o <<":">> \o u1 ELSE u1

(* normalize_url, lines 133-138: the string path taken when urlparse raises *)
normalize_url_fallback(u) ==
    LET s1 == RStrip(Before(Before(u, "#"), "?"), {"/"})
        s2 == Replace(s1, HTTP \o <<":", "/", "/">>, HTTPS \o <<":", "/", "/">>)
    IN Replace(s2, HTTPS \o <<":", "/", "/">> \o WWW, HTTPS \o <<":", "/", "/">>)

(* normalize_url, lines 119-140 *)
normalize_url(u) ==
    LET s == Strip(u)
        p == urlparse(s)
        scheme == IF p.scheme # <<>> THEN p.scheme ELSE HTTPS
        netloc == LowerSeq(p.netloc)
    IN IF p.error THEN normalize_url_fallback(u)
       ELSE urlunparse(scheme,
                       IF StartsWith(netloc, WWW) THEN SubSeq(netloc, 5, Len(netloc)) ELSE netloc,
                       RStrip(p.path, {"/"}))

(* The argument URLs *)
RECURSIVE Times(_, _)
Times(s, n) == IF n = 0 THEN <<>> ELSE s \o Times(s, n - 1)

UrlPrefixes == {<<>>, <<"/", "/">>, <<"h", "t", "t", "p", ":", "/", "/">>, <<"h", "t", "t", "p", "s", ":", "/", "/">>, <<"H", "T", "T", "P", ":", "/", "/">>}
UrlHosts    == {<<"e", ".", "r", "u">>, <<"W", "W", "W", ".", "E", ".", "r", "u">>, <<"[", "e">>}
UrlPaths    == {<<>>, <<"/", "a", "/", "b">>}
UrlQueries  == {<<>>, <<"?", "x", "=", "1">>}
UrlFragments == {<<>>, <<"#", "y">>}

EXAMPLE_1 == <<"h", "t", "t", "p", ":", "/", "/", "W", "W", "W", ".", "E", "x", "a", "m", "p", "l", "e", ".", "c", "o", "m", "/", "a", "/", "b", "/", "?", "x", "=", "1", "#", "y">>
EXAMPLE_2 == <<"h", "t", "t", "p", "s", ":", "/", "/", "e", "x", "a", "m", "p", "l", "e", ".", "c", "o", "m", "/", "a", "/", "b">>

UrlInputs ==
    {EXAMPLE_1, EXAMPLE_2} \cup
    { pre \o Times(WWW, w) \o host \o path \o Times(<<"/">>, n) \o q \o f \o sp :
        pre \in UrlPrefixes, w \in 0..MaxWww, host \in UrlHosts, path \in UrlPaths,
        n \in 0..MaxSlashes, q \in UrlQueries, f \in UrlFragments, sp \in {<<>>, <<" ">>} }

UrlInit ==
    /\ ClsIdle
    /\ SaveIdle
    /\ AddrIdle
    /\ ScrIdle
    /\ FillIdle
    /\ ChkIdle
    /\ GeoIdle
    /\ url \in UrlInputs
    /\ norm = NotYet
    /\ norm2 = NotYet

(* a caller normalizes a link (scrapers, line 320; save_and_check, line 543) *)
Normalize ==
    /\ url # <<>>
    /\ norm = NotYet
    /\ norm' = normalize_url(url)
    /\ UNCHANGED <<url, norm2>>
    /\ UNCHANGED nonUrl

(* save_and_check, line 543, normalizes the url field of a record again *)
Renormalize ==
    /\ norm # NotYet
    /\ norm2 = NotYet
    /\ norm2' = normalize_url(norm)
    /\ UNCHANGED <<url, norm>>
    /\ UNCHANGED nonUrl

UrlNext == Normalize \/ Renormalize

UrlSpec == UrlInit /\ [][UrlNext]_vars

Contains(s, c) == \E i \in 1..Len(s) : s[i] = c

(* C5: for every URL that urlparse accepts, normalize_url yields the        *)
(* canonical form: scheme https (an http:// input gives an https:// output),*)
(* host in lower case without a leading "www.", no trailing slash, no query *)
(* and no fragment; the two example URLs of the specification normalize to  *)
(* the same value.                                                          *)
C5_CanonicalForm ==
    norm # NotYet /\ ~urlparse(Strip(url)).error =>
        LET p == urlparse(Strip(url))
            host == LowerSeq(p.netloc)
        IN /\ StartsWith(norm, HTTPS \o <<":">>)
           /\ StartsWith(Strip(url), HTTP \o <<":", "/", "/">>)
                  => StartsWith(norm, HTTPS \o <<":", "/", "/">>)
           /\ urlparse(norm).netloc
                  = (IF StartsWith(host, WWW) THEN SubSeq(host, 5, Len(host)) ELSE host)
           /\ ~Contains(norm, "?") /\ ~Contains(norm, "#")
           /\ norm = <<>> \/ norm[Len(norm)] # "/"
           /\ url = EXAMPLE_1 => norm = normalize_url(EXAMPLE_2)

(* C6: normalize_url is idempotent *)
C6_Idempotent ==
    norm2 # NotYet => norm2 = norm

-----------------------------------------------------------------------------
(* save_and_check: normalisation of the url column and deduplication       *)
MaxRecords == 3     \* rows handed to save_and_check

URL_A     == <<"h", "t", "t", "p", "s", ":", "/", "/", "e", ".", "r", "u", "/", "a">>
URL_A_WWW == <<"h", "t", "t", "p", "s", ":", "/", "/", "w", "w", "w", ".", "e", ".", "r", "u", "/", "a", "/">>
URL_B     == <<"h", "t", "t", "p", "s", ":", "/", "/", "e", ".", "r", "u", "/", "b">>

(* The rows, reduced to the columns the deduplication reads *)
Rows == [source : {"cian", "avito"}, external_id : {None, "1"},
         url : {URL_A, URL_A_WWW, URL_B}]

RecordLists == UNION { [1..n -> Rows] : n \in 0..MaxRecords }

(* normalize_url on the urls of the rows, computed once *)
NormalizedUrl == [u \in {URL_A, URL_A_WWW, URL_B} |-> normalize_url(u)]

(* save_and_check, line 543: df['url'] = df['url'].map(normalize_url) *)
MapUrl(rows) == [i \in 1..Len(rows) |-> [rows[i] EXCEPT !.url = NormalizedUrl[@]]]

(* a key made of the source column alone *)
dedup_key_SourceOnly(r) == << <<r.source>> >>

(* save_and_check, lines 547-558: one tuple per key list, all in one key *)
dedup_key(r) == << <<r.source, r.external_id>>, <<r.url>> >>

(* save_and_check, lines 552-562: the positions kept, first occurrence wins *)
RECURSIVE KeepFrom(_, _, _, _)
KeepFrom(rows, i, seen, kept) ==
    IF i > Len(rows) THEN kept
    ELSE IF dedup_key(rows[i]) \in seen THEN KeepFrom(rows, i + 1, seen, kept)
    ELSE KeepFrom(rows, i + 1, seen \cup {dedup_key(rows[i])}, Append(kept, i))

SaveInit ==
    /\ ClsIdle
    /\ UrlIdle
    /\ AddrIdle
    /\ ScrIdle
    /\ FillIdle
    /\ ChkIdle
    /\ GeoIdle
    /\ records \in RecordLists
    /\ df = <<>>
    /\ keep_rows = <<>>
    /\ xlsx \in {NoFile, [exists |-> TRUE, rows |-> <<>>]}
    /\ sa_errors = <<>>
    /\ checker = "none"
    /\ sa_pc = "start"

(* save_and_check, lines 539-566 *)
Deduplicate ==
    /\ sa_pc = "start"
    /\ LET mapped == MapUrl(records)
           kept == KeepFrom(mapped, 1, {}, <<>>)
       IN /\ keep_rows' = kept
          /\ df' = [k \in 1..Len(kept) |-> mapped[kept[k]]]
    /\ sa_pc' = "deduplicated"
    /\ UNCHANGED <<records, xlsx, sa_errors, checker>>
    /\ UNCHANGED nonSave

CHECKER_FAILED == "Legacy WB checker failed"

(* save_and_check, line 578: df.to_excel(OUTPUT_XLSX, index=False), outside *)
(* any try: when the write fails the exception leaves save_and_check        *)
WriteTable ==
    /\ sa_pc = "deduplicated"
    /\ \E written \in BOOLEAN :
         IF written
         THEN xlsx' = [exists |-> TRUE, rows |-> df] /\ sa_pc' = "written"
         ELSE sa_pc' = "raised" /\ UNCHANGED xlsx
    /\ UNCHANGED <<records, df, keep_rows, sa_errors, checker>>
    /\ UNCHANGED nonSave

(* how subprocess.run(cmd, check=True) can end: exit status 0, a non-zero   *)
(* exit status (CalledProcessError), no process at all (OSError)            *)
CheckerEnds == {"exit 0", "exit 1", "not launched"}

(* the subprocess call outside its try: a failure leaves save_and_check *)
RunChecker_Unguarded ==
    /\ sa_pc = "written"
    /\ \E end \in CheckerEnds :
         /\ checker' = end
         /\ sa_pc' = IF end = "exit 0" THEN "returned" ELSE "raised"
    /\ UNCHANGED <<records, df, keep_rows, xlsx, sa_errors>>
    /\ UNCHANGED nonSave

(* save_and_check, lines 579-585: the classifier as a subprocess; a failure *)
(* of subprocess.run is logged                                              *)
RunChecker ==
    /\ sa_pc = "written"
    /\ \E end \in CheckerEnds :
         /\ checker' = end
         /\ sa_errors' = IF end = "exit 0" THEN sa_errors
                         ELSE Append(sa_errors, CHECKER_FAILED)
    /\ sa_pc' = "returned"
    /\ UNCHANGED <<records, df, keep_rows, xlsx>>
    /\ UNCHANGED nonSave

SaveNext == Deduplicate \/ WriteTable \/ RunChecker

SaveSpec == SaveInit /\ [][SaveNext]_vars

Kept == {keep_rows[k] : k \in 1..Len(keep_rows)}

SameId(i, j) ==
    /\ records[i].source = records[j].source
    /\ records[i].external_id = records[j].external_id

SameUrl(i, j) == NormalizedUrl[records[i].url] = NormalizedUrl[records[j].url]

(* C2: of two rows with the same source and the same non-null external_id   *)
(* but different normalized urls, only the first survives.                  *)
C2_DedupOnSourceId ==
    sa_pc = "deduplicated" =>
        \A j \in 1..Len(records) : \A i \in 1..(j - 1) :
            SameId(i, j) /\ records[i].external_id # None /\ ~SameUrl(i, j)
                => j \notin Kept

(* C3: of two rows without external_id whose normalized urls are equal,     *)
(* only the first survives, whatever their sources are.                     *)
C3_DedupOnUrl ==
    sa_pc = "deduplicated" =>
        \A j \in 1..Len(records) : \A i \in 1..(j - 1) :
            /\ records[i].external_id = None
            /\ records[j].external_id = None
            /\ SameUrl(i, j)
            => j \notin Kept

(* C4: the surviving rows are a subsequence of the input in input order,    *)
(* the first input row is kept, a row is dropped only if an earlier input   *)
(* row has the same (source, external_id) or the same normalized url, and   *)
(* two rows from different sources with different urls both survive.        *)
C4_OrderPreservingConservative ==
    sa_pc = "deduplicated" =>
        /\ \A k \in 1..(Len(keep_rows) - 1) : keep_rows[k] < keep_rows[k + 1]
        /\ Kept \subseteq 1..Len(records)
        /\ Len(df) = Len(keep_rows)
        /\ \A k \in 1..Len(df) :
               df[k] = [records[keep_rows[k]] EXCEPT !.url = NormalizedUrl[@]]
        /\ records # <<>> => 1 \in Kept
        /\ \A j \in (1..Len(records)) \ Kept :
               \E i \in 1..(j - 1) : SameId(i, j) \/ SameUrl(i, j)
        /\ Len(records) = 2 /\ records[1].source # records[2].source /\ ~SameUrl(1, 2)
               => keep_rows = <<1, 2>>

(* C4 witness: three rows of which the middle one was dropped *)
C4_Witness ==
    /\ sa_pc = "deduplicated"
    /\ Len(records) = 3
    /\ keep_rows = <<1, 3>>

-----------------------------------------------------------------------------
(* normalize_address_for_geocoding                                          *)
MaxSegments == 2     \* comma-separated segments of an address

(* an argument that is None: no sequence of characters *)
NoStr == <<None>>

(* needle in hay, for strings *)
InSeq(needle, hay) ==
    \E i \in 1..(Len(hay) - Len(needle) + 1) : SubSeq(hay, i, i + Len(needle) - 1) = needle

ON_MAP == <<"N", "a", " ", "k", "a", "r", "t", "e">>

tokens_to_drop == <<
    <<"r", "-", "n">>,
    <<"r", "a", "i", "o", "n">>,
    <<"A", "O">>,
    <<"o", "k", "r", "u", "g">>,
    <<"a", "d", "m", ".", " ", "o", "k", "r", "u", "g">>,
    <<"A", "D", "M", " ", "O", "k", "r", "u", "g">>,
    <<"C", "A", "O">>,
    <<"S", "A", "O">>,
    <<"S", "V", "A", "O">>,
    <<"Y", "U", "V", "A", "O">>,
    <<"Y", "U", "A", "O">>,
    <<"Y", "U", "Z", "A", "O">>,
    <<"Z", "A", "O">>,
    <<"S", "Z", "A", "O">>,
    <<"N", "A", "O">>,
    <<"T", "A", "O">>,
    <<"N", "A", "O", " ", "(", "N", "o", "v", "o", "m", "o", "s", "k", "o", "v", "s", "k", "i", "i", ")">>,
    <<"T", "A", "O", " ", "(", "T", "r", "o", "i", "t", "s", "k", "i", "i", ")">> >>

RECURSIVE Spaces(_, _)
Spaces(s, i) == IF i <= Len(s) /\ s[i] = " " THEN 1 + Spaces(s, i + 1) ELSE 0

(* re.sub(r"\s*\([^\)]*\)", "", s) from position i on: a match starts with  *)
(* the whole run of blanks at i, then "(", then everything up to the first  *)
(* ")" after it.                                                            *)
RECURSIVE SubParens(_, _)
SubParens(s, i) ==
    IF i > Len(s) THEN <<>>
    ELSE LET open == i + Spaces(s, i)
             close == IF open <= Len(s) /\ s[open] = "(" THEN Find(s, {")"}, open + 1) ELSE 0
         IN IF close # 0 THEN SubParens(s, close + 1)
            ELSE <<s[i]>> \o SubParens(s, i + 1)

(* a.split(',') *)
RECURSIVE Split(_)
Split(s) ==
    LET i == Find(s, {","}, 1)
    IN IF i = 0 THEN <<s>> ELSE <<SubSeq(s, 1, i - 1)>> \o Split(SubSeq(s, i + 1, Len(s)))

(* ', '.join(parts) *)
RECURSIVE Join(_)
Join(parts) ==
    IF parts = <<>> THEN <<>>
    ELSE IF Len(parts) = 1 THEN parts[1]
    ELSE parts[1] \o <<",", " ">> \o Join(Tail(parts))

(* the test of line 114 left out: the city is always inserted *)
city_missing_Always(c, filtered) == TRUE

(* line 114: all(city.lower() not in p.lower() for p in filtered) *)
city_missing(c, filtered) ==
    \A k \in 1..Len(filtered) : ~InSeq(LowerSeq(c), LowerSeq(filtered[k]))

(* the substitution of line 111 left out *)
strip_parens_None(s) == s

(* line 111 *)
strip_parens(s) == SubParens(s, 1)

(* line 112: [p.strip() for p in a.split(',') if p.strip()] *)
Parts(a) ==
    LET stripped == [k \in 1..Len(Split(a)) |-> Strip(Split(a)[k])]
        NonEmpty(p) == p # <<>>
    IN SelectSeq(stripped, NonEmpty)

(* line 113: not any(tok.lower() in p.lower() for tok in tokens_to_drop) *)
NoToken(p) ==
    \A t \in 1..Len(tokens_to_drop) : ~InSeq(LowerSeq(tokens_to_drop[t]), LowerSeq(p))

(* normalize_address_for_geocoding, lines 102-116; addr NoStr stands for an *)
(* address that is no string, c NoStr for a city that is None or empty.     *)
normalize_address_for_geocoding(addr, c) ==
    IF addr = NoStr THEN <<"N", "o", "n", "e">>
    ELSE LET a0 == LStrip(RStrip(Replace(addr, ON_MAP, <<>>), {" ", ","}), {" ", ","})
             a == strip_parens(a0)
             parts == Parts(a)
             filtered0 == SelectSeq(parts, NoToken)
             filtered == IF c # NoStr /\ city_missing(c, filtered0)
                         THEN <<c>> \o filtered0 ELSE filtered0
         IN IF filtered # <<>> THEN Join(filtered)
            ELSE IF c # NoStr THEN c \o <<",", " ">> \o a ELSE a

(* The arguments: addresses of up to MaxSegments segments, each with or     *)
(* without parenthesized groups, with or without the on-map marker.         *)
SEG_CITY     == <<"M", "o", "s", "k", "v", "a">>
SEG_DISTRICT == <<"C", "A", "O">>
SEG_STREET   == <<"u", "l", ".", " ", "L">>

AddrSegments == {SEG_CITY, SEG_DISTRICT, SEG_STREET}

AddrGroups == {<<>>, <<" ", "(", "x", ")">>, <<" ", "(", "x", ")", " ", "(", "y", ")">>, <<" ", "(", "a", " ", "(", "b", ")", " ", "c", ")">>, <<" ", "(", "N", "o", "v", "o", "m", "o", "s", "k", "o", "v", "s", "k", "i", "i", ")">>}

CITY_PARENS == <<"N", "A", "O", " ", "(", "N", "o", "v", "o", "m", "o", "s", "k", "o", "v", "s", "k", "i", "i", ")">>

Cities == {NoStr, SEG_CITY, LowerSeq(SEG_CITY), CITY_PARENS}

EXAMPLE_ADDRESS == <<"M", "o", "s", "k", "v", "a", ",", " ", "C", "A", "O", ",", " ", "u", "l", ".", " ", "L", "e", "n", "i", "n", "a", ",", " ", "1", " ", "(", "r", "y", "a", "d", "o", "m", " ", "s", " ", "m", "e", "t", "r", "o", ")">>

RECURSIVE AddrOfLen(_)
AddrOfLen(n) ==
    IF n = 1 THEN { seg \o g : seg \in AddrSegments, g \in AddrGroups }
    ELSE { head \o <<",", " ">> \o seg \o g :
             head \in AddrOfLen(n - 1), seg \in AddrSegments, g \in AddrGroups }

Addresses ==
    {NoStr, EXAMPLE_ADDRESS}
      \cup UNION { AddrOfLen(n) : n \in 1..MaxSegments }
      \cup { ad \o <<" ">> \o ON_MAP : ad \in AddrOfLen(1) }

AddrInit ==
    /\ ClsIdle
    /\ UrlIdle
    /\ SaveIdle
    /\ ScrIdle
    /\ FillIdle
    /\ ChkIdle
    /\ GeoIdle
    /\ address \in Addresses
    /\ city \in Cities
    /\ formatted = NotYet

(* a caller normalizes an address (lines 323, 488, 522, 573, 609) *)
NormalizeAddress ==
    /\ formatted = NotYet
    /\ formatted' = normalize_address_for_geocoding(address, city)
    /\ UNCHANGED <<address, city>>
    /\ UNCHANGED nonAddr

AddrNext == NormalizeAddress

AddrSpec == AddrInit /\ [][AddrNext]_vars

(* the sub-strings of s that start with "(" and end with ")" *)
Parenthesized(s) ==
    { SubSeq(s, i, j) : i \in {k \in 1..Len(s) : s[k] = "("},
                        j \in {k \in 1..Len(s) : s[k] = ")"} } \ {<<>>}

(* C10 as stated: for every string address and every city, the output holds *)
(* none of the parenthesized sub-strings of the address.                    *)
C10_NoParenthesized ==
    formatted # NotYet /\ address # NoStr =>
        \A g \in Parenthesized(address) : ~InSeq(g, formatted)

(* C10 amended: for every string address and every city that has no         *)
(* parenthesis of its own, the output holds none of the parenthesized       *)
(* sub-strings of the address, in the fallback branch too.                  *)
C10_NoParenthesizedPlainCity ==
    formatted # NotYet /\ address # NoStr
      /\ (city = NoStr \/ (~Contains(city, "(") /\ ~Contains(city, ")"))) =>
        \A g \in Parenthesized(address) : ~InSeq(g, formatted)

(* C10 witness: an address with a nested group, normalized in the fallback  *)
(* branch (every segment filtered away, no city).                           *)
C10_Witness ==
    /\ formatted # NotYet
    /\ address = SEG_DISTRICT \o <<" ", "(", "a", " ", "(", "b", ")", " ", "c", ")">>
    /\ city = NoStr

(* a segment that is one of the administrative-district tokens *)
IsDistrict(p) ==
    \E t \in 1..Len(tokens_to_drop) : LowerSeq(p) = LowerSeq(tokens_to_drop[t])

(* a segment that is the city *)
IsCity(p) == LowerSeq(p) = LowerSeq(city)

(* the address is made of district tokens and the city only *)
DistrictsAndCity ==
    /\ address # NoStr
    /\ city # NoStr
    /\ \A k \in 1..Len(Parts(address)) :
          IsDistrict(Parts(address)[k]) \/ IsCity(Parts(address)[k])

(* C11 as stated: for an address whose segments are district tokens and the *)
(* city only, and a non-empty city, the output is exactly the city: not     *)
(* empty, no district token, not the city twice.                            *)
C11_DistrictsOnly ==
    formatted # NotYet /\ DistrictsAndCity => LowerSeq(formatted) = LowerSeq(city)

(* C11 amended: the same for an address that names the city at most once.   *)
C11_DistrictsOnlyCityOnce ==
    formatted # NotYet /\ DistrictsAndCity
      /\ Cardinality({k \in 1..Len(Parts(address)) : IsCity(Parts(address)[k])}) <= 1
      => LowerSeq(formatted) = LowerSeq(city)

(* C11 witness: the city and a district, normalized with that city *)
C11_Witness ==
    /\ formatted # NotYet
    /\ address = SEG_CITY \o <<",", " ">> \o SEG_DISTRICT
    /\ city = SEG_CITY

EXAMPLE_FORMATTED == <<"M", "o", "s", "k", "v", "a", ",", " ", "u", "l", ".", " ", "L", "e", "n", "i", "n", "a", ",", " ", "1">>

(* C12: for every address, None too, and a non-empty city the output holds  *)
(* the city name, case-insensitively; the city is put first only when no    *)
(* remaining segment holds it, otherwise the remaining segments come back   *)
(* in their order joined by ", "; the example address of the specification  *)
(* gives the example output.                                                *)
C12_CityInjection ==
    formatted # NotYet /\ city # NoStr =>
        /\ InSeq(LowerSeq(city), LowerSeq(formatted))
        /\ address # NoStr =>
             LET a == LStrip(RStrip(Replace(address, ON_MAP, <<>>), {" ", ","}), {" ", ","})
                 remaining == SelectSeq(Parts(strip_parens(a)), NoToken)
             IN formatted =
                  IF \E k \in 1..Len(remaining) : InSeq(LowerSeq(city), LowerSeq(remaining[k]))
                  THEN Join(remaining)
                  ELSE Join(<<city>> \o remaining)
        /\ address = EXAMPLE_ADDRESS /\ city = SEG_CITY => formatted = EXAMPLE_FORMATTED

-----------------------------------------------------------------------------
(* scrape_cian and scrape_avito: the detail pages of one search page        *)
MaxLinks == 2        \* links on a search page
MaxPages == 5        \* the argument pages of a scraper
MaxExtra == 1        \* links of a search page beyond LINK_CAP

AREA_MIN == 45
AREA_MAX == 200
ITEM_RETRIES == 3
EMPTY_PAGES_STOP == 3
BACKOFF_CAP == 8
LINK_CAP == 40

(* Optional[float]: <<>> is None, <<x>> is the number x *)
NoArea == <<>>

(* a latitude and a longitude, each None when absent *)
NoCoords == [lat |-> None, lng |-> None]

LD_COORDS     == [lat |-> "55.1", lng |-> "37.1"]   \* geo of a JSON-LD block
INLINE_COORDS == [lat |-> "55.2", lng |-> "37.2"]   \* "latitude":..,"longitude":.. in the text
MAP_COORDS    == [lat |-> "55.3", lng |-> "37.3"]   \* points[0].ll of data-map-state
GEOCODED      == [lat |-> "55.4", lng |-> "37.4"]   \* reply of geocode_address

(* the text of an address node: with the city, a district and a remark in   *)
(* parentheses, and a street alone                                          *)
ADDRESS == EXAMPLE_ADDRESS
STREET  == SEG_STREET

(* an inline "latitude" match that is no number ([0-9.]+ also matches       *)
(* "55.2.1"): float() raises ValueError at line 282                         *)
MALFORMED_COORDS == [lat |-> "55.2.1", lng |-> "37.2"]

(* an address label that is the last node of the page: find_next() gives    *)
(* None and .get_text raises AttributeError at line 451; such a page has no *)
(* address node for scrape_cian                                             *)
LAST_LABEL == <<"label without a next element">>

(* Optional[float] of the price: <<>> is None *)
NoPrice == <<>>
PRICE == <<100000>>

(* A fetched detail page, as what each extractor of the scrapers finds in   *)
(* it: area is parse_area_m2_from_soup(text, item_soup), jsonld the geo of  *)
(* the first JSON-LD block that has one, inline the match of the            *)
(* "latitude"/"longitude" pattern, map_state the point of data-map-state,   *)
(* address the text of the address node, price the match of the price      *)
(* pattern.                                                                 *)
Page(area, jsonld, inline, map_state, addr, price) ==
    [area |-> area, jsonld |-> jsonld, inline |-> inline,
     map_state |-> map_state, address |-> addr, price |-> price]

DetailPages ==
    { Page(a, LD_COORDS, INLINE_COORDS, MAP_COORDS, ADDRESS, PRICE) :
          a \in {NoArea, <<AREA_MIN - 1>>, <<AREA_MIN>>, <<AREA_MAX + 1>>} }
      \cup { Page(<<AREA_MAX>>, LD_COORDS, INLINE_COORDS, NoCoords, ADDRESS, PRICE),
             Page(<<AREA_MAX>>, NoCoords, INLINE_COORDS, MAP_COORDS, ADDRESS, PRICE),
             Page(<<AREA_MIN>>, NoCoords, NoCoords, NoCoords, ADDRESS, PRICE),
             Page(<<AREA_MIN>>, NoCoords, NoCoords, NoCoords, STREET, PRICE),
             Page(<<AREA_MAX>>, NoCoords, NoCoords, NoCoords, NoStr, PRICE),
             Page(<<AREA_MIN>>, LD_COORDS, INLINE_COORDS, MAP_COORDS, ADDRESS, <<0>>),
             Page(<<AREA_MAX>>, LD_COORDS, INLINE_COORDS, MAP_COORDS, ADDRESS, NoPrice),
             Page(<<AREA_MIN>>, NoCoords, MALFORMED_COORDS, MAP_COORDS, ADDRESS, PRICE),
             Page(<<AREA_MIN>>, LD_COORDS, INLINE_COORDS, MAP_COORDS, LAST_LABEL, PRICE) }

(* scrape_cian, lines 266-283: JSON-LD first, then the inline pattern *)
cian_coordinates(page) ==
    IF page.jsonld.lat # None /\ page.jsonld.lng # None THEN page.jsonld ELSE page.inline

(* scrape_avito, lines 433-445: data-map-state only *)
avito_coordinates(page) == page.map_state

(* the filter without its upper bound *)
area_filter_NoUpper(area_m2) == area_m2 # NoArea /\ AREA_MIN <= area_m2[1]

(* lines 306 and 471 *)
area_filter(area_m2) ==
    area_m2 # NoArea /\ AREA_MIN <= area_m2[1] /\ area_m2[1] <= AREA_MAX

(* the replies geocode_address can give: None or a result *)
GeocodeReplies == {NoCoords, GEOCODED}

(* round(x / y, 2) in hundredths, ties to the even neighbour *)
round_2(x, y) ==
    LET n == x * 100
        q == n \div y
        rem == n % y
    IN IF 2 * rem < y THEN q
       ELSE IF 2 * rem > y THEN q + 1
       ELSE IF q % 2 = 0 THEN q ELSE q + 1

(* the truth value of an Optional[float]: None and 0.0 are false *)
Truthy(x) == x # <<>> /\ x[1] # 0

(* lines 329 and 494, in hundredths:                                        *)
(* round(price_total/area_m2, 2) if price_total and area_m2 else None       *)
price_per_m2(price_total, area_m2) ==
    IF Truthy(price_total) /\ Truthy(area_m2)
    THEN <<round_2(price_total[1], area_m2[1])>> ELSE NoPrice

(* lines 286-294: the address scrape_cian finds *)
cian_address(page) == IF page.address = LAST_LABEL THEN NoStr ELSE page.address

(* lines 309-311 and 474-476: the address as extracted, behind the city     *)
(* when the city is not in it                                               *)
search_addr(addr, c) ==
    IF c # <<>> /\ ~InSeq(LowerSeq(c), LowerSeq(addr))
    THEN c \o <<",", " ">> \o addr ELSE addr

(* an extractor raises outside every inner try: float() of the inline match *)
(* in scrape_cian (lines 280-283), the address lookup in scrape_avito       *)
(* (lines 450-451)                                                          *)
Raises(src, page) ==
    \/ src = "cian" /\ page.jsonld = NoCoords /\ page.inline = MALFORMED_COORDS
    \/ src = "avito" /\ page.address = LAST_LABEL

(* lines 316-333 and 481-498: the row appended for a page *)
NewRow(src, page, ll) ==
    [source |-> src,
     address_raw |-> IF src = "cian" THEN cian_address(page) ELSE page.address,
     lat |-> ll.lat, lng |-> ll.lng, area_m2 |-> page.area,
     price_total |-> page.price,
     price_per_m2 |-> price_per_m2(page.price, page.area)]

(* the pages served in the runs that are about pagination: one listing     *)
(* that is kept and one that the area filter drops                          *)
PagingPages ==
    { Page(<<AREA_MIN>>, LD_COORDS, INLINE_COORDS, MAP_COORDS, STREET, PRICE),
      Page(NoArea, LD_COORDS, INLINE_COORDS, MAP_COORDS, STREET, PRICE) }

(* lines 188-191 and 345-355: a scraper starts *)
ScrStart ==
    /\ ClsIdle
    /\ UrlIdle
    /\ SaveIdle
    /\ FillIdle
    /\ ChkIdle
    /\ GeoIdle
    /\ address = <<>>
    /\ formatted = NotYet
    /\ scraper \in {"cian", "avito"}
    /\ page_no = 1
    /\ empty_pages = 0
    /\ page_log = <<>>
    /\ hrefs = <<>>
    /\ links = 0
    /\ link = 0
    /\ attempt = 0
    /\ status_code = None
    /\ back = 0
    /\ requests = NoRequests
    /\ item = None
    /\ geo_query = <<>>
    /\ scraped = <<>>
    /\ scr_pc = "search"

(* the argument city: the default of --city (line 38), as written and in    *)
(* lower case                                                               *)
ScrCities == {SEG_CITY, LowerSeq(SEG_CITY)}

Min(x, y) == IF x <= y THEN x ELSE y

Range(a, b) == <<>> \o [i \in 1..(b - a + 1) |-> a + i - 1]

(* search pages with 1..MaxLinks links, each once *)
ShortLists == { Range(1, n) : n \in 1..MaxLinks }

(* one search page, any detail page *)
ScrInit ==
    /\ ScrStart /\ city \in ScrCities /\ pages = 1
    /\ site = DetailPages /\ search_site = ShortLists

(* up to MaxPages search pages, two detail pages *)
PagingInit ==
    /\ ScrStart /\ city = SEG_CITY /\ pages \in 1..MaxPages
    /\ site = PagingPages /\ search_site = ShortLists

(* search pages with more links than the scrapers take: LINK_CAP and more   *)
(* different links, behind a first link that is there twice or behind       *)
(* LINK_CAP links that all come again; and a page of one link, twice        *)
LongLists ==
    { Range(1, d) \o Range(1, LINK_CAP + e) : d \in {1, LINK_CAP}, e \in 0..MaxExtra }
        \cup {<<1, 1>>}

(* one or two search pages with long link lists; every listing is outside   *)
(* the area bounds                                                          *)
LinksInit ==
    /\ ScrStart /\ city = SEG_CITY /\ pages \in 1..2
    /\ site = {Page(NoArea, LD_COORDS, INLINE_COORDS, MAP_COORDS, STREET, PRICE)}
    /\ search_site = LongLists

(* lines 235 and 401: list(dict.fromkeys(links)) *)
(* a dict keeps a key at the place where it was set first: the keys of    *)
(* the first half, then the keys of the second half that are new          *)
RECURSIVE fromkeys(_)
fromkeys(seq) ==
    IF Len(seq) <= 1 THEN seq
    ELSE LET half == Len(seq) \div 2
             set_before == fromkeys(SubSeq(seq, 1, half))
             set_after == fromkeys(SubSeq(seq, half + 1, Len(seq)))
             IsNew(key) == \A i \in 1..Len(set_before) : set_before[i] # key
         IN set_before \o SelectSeq(set_after, IsNew)

(* the slice taken before the duplicates are dropped *)
links_of_page_CapFirst(found) == fromkeys(SubSeq(found, 1, Min(Len(found), LINK_CAP)))

(* lines 235, 245 and 401, 411: links[:40] of the list without duplicates *)
links_of_page(found) ==
    LET distinct == fromkeys(found)
    IN SubSeq(distinct, 1, Min(Len(distinct), LINK_CAP))

(* the outcomes of a search-page request after which the scraper breaks:    *)
(* only an exception                                                        *)
SearchBreaks_ErrorOnly == {"error"}

(* the outcomes of a search-page request after which the scraper breaks:    *)
(* status 403 or 429 (lines 204-206, 360-362) and any exception, such as a  *)
(* timeout or the HTTPError of raise_for_status (lines 338-339, 501-502)    *)
SearchBreaks == {"blocked", "error"}

(* the empty-page test left out *)
stop_after_empty_Never(n) == FALSE

(* lines 239 and 405: if empty_pages >= 3 *)
stop_after_empty(n) == n >= EMPTY_PAGES_STOP

(* the retry loop left after its first attempt *)
retry_again_Never(a) == FALSE

(* lines 249 and 415: for attempt in range(1, ITEM_RETRIES + 1) has a next  *)
(* value                                                                    *)
retry_again(a) == a < ITEM_RETRIES

(* lines 252, 260: back = min(2 ** attempt, 8) + random.random() *)
backoff(a) == Min(2 ^ a, BACKOFF_CAP)

(* the for loop over range(1, pages + 1) goes to its next page *)
NextPage ==
    /\ page_no' = page_no + 1
    /\ scr_pc' = IF page_no + 1 > pages THEN "done" ELSE "search"

(* continue: the for loop over links[:40] goes to its next link, and after  *)
(* the last link the outer loop goes to its next page                       *)
NextLink ==
    /\ link' = link + 1
    /\ attempt' = 1
    /\ IF link + 1 > links THEN NextPage
       ELSE scr_pc' = "fetch" /\ UNCHANGED page_no

(* lines 192-244 and 356-410: the request of search page p and the links    *)
(* found in it                                                              *)
FetchSearch ==
    /\ scr_pc = "search"
    /\ \E outcome \in {"blocked", "error", "empty", "links"} :
         /\ page_log' = Append(page_log, [p |-> page_no, res |-> outcome])
         /\ IF outcome \in SearchBreaks
            THEN /\ scr_pc' = "done"
                 /\ UNCHANGED <<page_no, empty_pages, hrefs, links, link, attempt>>
            ELSE IF outcome = "links"
            THEN /\ \E found \in search_site :
                      /\ hrefs' = found
                      /\ links' = Len(links_of_page(found))
                 /\ empty_pages' = 0
                 /\ link' = 1
                 /\ attempt' = 1
                 /\ scr_pc' = "fetch"
                 /\ UNCHANGED page_no
            ELSE /\ empty_pages' = empty_pages + 1
                 /\ IF stop_after_empty(empty_pages + 1)
                    THEN scr_pc' = "done" /\ UNCHANGED page_no
                    ELSE NextPage
                 /\ hrefs' = <<>>
                 /\ links' = 0
                 /\ UNCHANGED <<link, attempt>>
    /\ UNCHANGED <<scraper, site, search_site, pages, status_code, back, requests, item,
                   geo_query, scraped>>
    /\ UNCHANGED nonScr

(* lines 247-263 and 413-429: one session.get of the retry loop *)
FetchDetail ==
    /\ scr_pc = "fetch"
    /\ requests' = IF requests.p = page_no /\ requests.link = link
                   THEN [requests EXCEPT !.n = @ + 1]
                   ELSE [p |-> page_no, link |-> link,
                         href |-> links_of_page(hrefs)[link], n |-> 1]
    /\ \E outcome \in {"ok", "blocked", "http_error", "raises"} :
         CASE outcome = "ok" ->
                \E page \in site :
                    /\ status_code' = "200"
                    /\ item' = page
                    /\ scr_pc' = "parse"
                    /\ UNCHANGED <<page_no, link, attempt, back>>
           [] outcome \in {"blocked", "http_error"} ->
                /\ status_code' = IF outcome = "blocked" THEN "403" ELSE "500"
                /\ back' = backoff(attempt)
                /\ IF retry_again(attempt)
                   THEN attempt' = attempt + 1 /\ UNCHANGED <<page_no, link, scr_pc>>
                   ELSE NextLink
                /\ UNCHANGED item
           [] outcome = "raises" ->
                /\ status_code' = "raised"
                /\ NextLink
                /\ UNCHANGED <<item, back>>
    /\ UNCHANGED <<scraper, site, search_site, pages, empty_pages, page_log, hrefs, links,
                   geo_query, scraped>>
    /\ UNCHANGED nonScr

(* lines 264-337 and 430-500: extraction, the area filter, geocoding as the *)
(* last resort, and the append; an exception of an extractor ends in the    *)
(* except of line 336 or 499: continue                                      *)
ProcessDetail ==
    /\ scr_pc = "parse"
    /\ LET ll == IF scraper = "cian" THEN cian_coordinates(item)
                 ELSE avito_coordinates(item)
           addr == IF scraper = "cian" THEN cian_address(item) ELSE item.address
       IN IF Raises(scraper, item)
          THEN scraped' = scraped /\ geo_query' = <<>>
          ELSE IF area_filter(item.area)
          THEN IF (ll.lat = None \/ ll.lng = None) /\ addr # NoStr
               THEN /\ geo_query' = search_addr(addr, city)
                    /\ \E geo \in GeocodeReplies :
                         scraped' = Append(scraped,
                            NewRow(scraper, item, IF geo # NoCoords THEN geo ELSE ll))
               ELSE /\ geo_query' = <<>>
                    /\ scraped' = Append(scraped, NewRow(scraper, item, ll))
          ELSE scraped' = scraped /\ geo_query' = <<>>
    /\ NextLink
    /\ UNCHANGED <<scraper, site, search_site, pages, empty_pages, page_log, hrefs, links,
                   status_code, back, requests, item>>
    /\ UNCHANGED nonScr

ScrNext == FetchSearch \/ FetchDetail \/ ProcessDetail

ScrSpec == ScrInit /\ [][ScrNext]_vars

PagingSpec == PagingInit /\ [][ScrNext]_vars

LinksSpec == LinksInit /\ [][ScrNext]_vars

(* C7: every record of a scraper has a non-null area_m2 within              *)
(* [AREA_MIN, AREA_MAX], bounds inclusive: 44 and 201 and an absent area    *)
(* are never appended.                                                      *)
C7_AreaBounds ==
    \A i \in 1..Len(scraped) :
        /\ scraped[i].area_m2 # NoArea
        /\ AREA_MIN <= scraped[i].area_m2[1]
        /\ scraped[i].area_m2[1] <= AREA_MAX

(* C7 witness: a finished run that kept a page of area AREA_MIN and a page  *)
(* of area AREA_MAX.                                                        *)
C7_Witness ==
    /\ scr_pc = "done"
    /\ \E i, j \in 1..Len(scraped) :
          scraped[i].area_m2 = <<AREA_MIN>> /\ scraped[j].area_m2 = <<AREA_MAX>>

(* C8: in either scraper the record built from a page has the coordinates   *)
(* of the JSON-LD geo block when the page has one and a conflicting inline  *)
(* pattern; the inline pattern gives the coordinates only when no JSON-LD   *)
(* block does, and data-map-state only when neither does.                   *)
C8_CoordinatePrecedence ==
    [][ scr_pc = "parse" /\ Len(scraped') = Len(scraped) + 1 =>
          LET rec == scraped'[Len(scraped')]
              ll == [lat |-> rec.lat, lng |-> rec.lng]
          IN /\ item.jsonld # NoCoords /\ item.inline # NoCoords
                    /\ item.inline # item.jsonld => ll = item.jsonld
             /\ ll = INLINE_COORDS => item.jsonld = NoCoords
             /\ ll = MAP_COORDS => item.jsonld = NoCoords /\ item.inline = NoCoords
      ]_vars

(* C13: every record has price_per_m2 = round(price_total / area_m2, 2)     *)
(* when price_total is not null (0 too) and area_m2 is neither null nor 0,  *)
(* and null exactly when price_total is null or area_m2 is null or 0.       *)
C13_PricePerM2 ==
    \A i \in 1..Len(scraped) :
        LET rec == scraped[i]
            defined == rec.price_total # NoPrice /\ rec.area_m2 # NoArea
                          /\ rec.area_m2[1] # 0
        IN /\ defined =>
                rec.price_per_m2 = <<round_2(rec.price_total[1], rec.area_m2[1])>>
           /\ rec.price_per_m2 = NoPrice <=> ~defined

(* C14: a fetched page whose area is present and within bounds always       *)
(* yields an appended record, whatever its extractors do.                   *)
C14_OnlyAreaDrops ==
    [][ scr_pc = "parse" /\ item.area # NoArea
          /\ AREA_MIN <= item.area[1] /\ item.area[1] <= AREA_MAX =>
            /\ Len(scraped') = Len(scraped) + 1
            /\ scraped'[Len(scraped')].area_m2 = item.area
      ]_vars

Last(seq) == seq[Len(seq)]

(* a search page was requested in this step, with this outcome *)
Searched(res) ==
    /\ Len(page_log') = Len(page_log) + 1
    /\ Last(page_log').res = res

(* C15: a transient failure of the request of search page p < pages skips   *)
(* that page only: page p + 1 is requested next and the records collected   *)
(* so far stay.                                                             *)
C15_TransientPageSkipped ==
    [][ Searched("error") /\ page_no < pages =>
          /\ scr_pc' = "search"
          /\ page_no' = page_no + 1
          /\ scraped' = scraped
      ]_vars

(* C18: a search page answered with 403 or 429 ends the run: the step       *)
(* leaves the records as they are and finishes the scraper, and no step     *)
(* (no search page, no detail page, no retry) follows it.                   *)
C18_BlockIsHardStop ==
    [][ /\ \A i \in 1..Len(page_log) : page_log[i].res # "blocked"
        /\ Searched("blocked") => scr_pc' = "done" /\ scraped' = scraped
      ]_vars

(* C18 witness: page 1 gave a record, page 2 was blocked, the run is over   *)
C18_Witness ==
    /\ scr_pc = "done"
    /\ pages > 2
    /\ Len(page_log) = 2
    /\ page_log[2] = [p |-> 2, res |-> "blocked"]
    /\ scraped # <<>>

(* the search pages without links at the end of the log *)
RECURSIVE TrailingEmpty(_)
TrailingEmpty(log) ==
    IF log = <<>> \/ Last(log).res # "empty" THEN 0
    ELSE 1 + TrailingEmpty(SubSeq(log, 1, Len(log) - 1))

(* C19: the counter is the number of search pages without links in a row;   *)
(* the third such page in a row stops the pagination, any earlier one does  *)
(* not: the next page is requested up to the page limit.                    *)
C19_EmptyPageCounter ==
    [][ /\ Searched("empty") =>
             /\ empty_pages' = TrailingEmpty(page_log')
             /\ IF TrailingEmpty(page_log') >= 3
                THEN scr_pc' = "done"
                ELSE /\ page_no' = page_no + 1
                     /\ scr_pc' = IF page_no < pages THEN "search" ELSE "done"
        /\ Searched("links") => empty_pages' = 0 /\ scr_pc' = "fetch"
      ]_vars

(* C19 witness: empty, empty, links, empty, empty: page 5 was reached *)
C19_Witness ==
    /\ Len(page_log) = 5
    /\ [i \in 1..5 |-> page_log[i].res] = <<"empty", "empty", "links", "empty", "empty">>
    /\ page_log[5].p = 5

(* C20: a link is requested at most ITEM_RETRIES times; after a 403/429 the *)
(* scraper sleeps min(2^attempt, 8) and, below the limit, requests the same *)
(* link again; after the last failed attempt the link is skipped without a  *)
(* record and the run goes on with the next link of the page, or the next   *)
(* page.                                                                    *)
C20_DetailRetries ==
    [][ scr_pc = "fetch" =>
          /\ requests'.n <= ITEM_RETRIES
          /\ status_code' = "403" =>
               /\ back' = Min(2 ^ attempt, 8)
               /\ attempt < ITEM_RETRIES =>
                    /\ scr_pc' = "fetch"
                    /\ link' = link /\ page_no' = page_no
                    /\ attempt' = attempt + 1
          /\ status_code' # "200" /\ requests'.n = ITEM_RETRIES =>
               /\ scraped' = scraped
               /\ link < links =>
                    scr_pc' = "fetch" /\ link' = link + 1 /\ page_no' = page_no
               /\ link = links /\ page_no < pages => scr_pc' = "search"
      ]_vars

(* C20 witness: the first link was given up after ITEM_RETRIES requests,    *)
(* the last of them answered 403, and the second link is next               *)
C20_Witness ==
    /\ scr_pc = "fetch"
    /\ link = 2
    /\ requests = [p |-> page_no, link |-> 1, href |-> 1, n |-> ITEM_RETRIES]
    /\ status_code = "403"

-----------------------------------------------------------------------------
(* C16: a failing write of the table is logged and save_and_check returns:  *)
(* no exception leaves it.                                                  *)
C16_NoPersistenceRaise == sa_pc # "raised"

-----------------------------------------------------------------------------
(* C17: when the zone lookup of a row fails outright (fetch_page returns    *)
(* nothing), the status handed to set_status_to_table and the one written   *)
(* to the row is 'N/A', never 'ERROR', the write is followed by the next    *)
(* row, and every row that remains is examined before the pass finishes.    *)
C17_ServiceFailureIsNA ==
    rowLog.response = <<NoResponse>> =>
        /\ pc = "write" =>
              /\ color_to_write = NA
              /\ row_num = rowLog.row
              /\ ENABLED set_status_to_table
        /\ pc = "loop" =>
              /\ Row(ws, rowLog.row).color = NA
              /\ row_num = rowLog.row + 1
              /\ row_num <= row_count(ws) => ENABLED ExamineRow /\ ~ENABLED Finish
              /\ row_num > row_count(ws) => ENABLED Finish

(* C17 witness: the lookup of a row failed, 'N/A' was written to it, and the *)
(* pass stands before a row that remains.                                    *)
C17_Witness ==
    /\ pc = "loop"
    /\ rowLog.response = <<NoResponse>>
    /\ Row(ws, rowLog.row).color = NA
    /\ row_num <= row_count(ws)

-----------------------------------------------------------------------------
(* C21: a detail request that raises (timeout, connection error) or is      *)
(* answered 5xx on attempt 1 or 2 is followed, after the back-off, by the   *)
(* next attempt for the same link.                                          *)
C21_TransientItemRetried ==
    [][ scr_pc = "fetch" /\ status_code' \in {"500", "raised"} /\ attempt < 3 =>
          /\ back' = backoff(attempt)
          /\ scr_pc' = "fetch"
          /\ link' = link /\ page_no' = page_no
          /\ attempt' = attempt + 1
      ]_vars

-----------------------------------------------------------------------------
(* the coordinates the pages of a listing give to its scraper *)
PageCoordinates == IF scraper = "cian" THEN cian_coordinates(item)
                   ELSE avito_coordinates(item)

(* the address the scraper extracts from the page of a listing *)
PageAddress == IF scraper = "cian" THEN cian_address(item) ELSE item.address

(* C22: geocode_address is called for a listing exactly when its area is    *)
(* within bounds, the page gave no lat or no lng, and an address was        *)
(* extracted; the query is the normalized address; whatever the reply, the  *)
(* record is appended, with null coordinates when the geocoder gave none.   *)
C22_GeocodingLastResort ==
    [][ scr_pc = "parse" /\ ~Raises(scraper, item) =>
          /\ geo_query' # <<>> <=>
                /\ area_filter(item.area)
                /\ PageCoordinates.lat = None \/ PageCoordinates.lng = None
                /\ PageAddress # NoStr
          /\ geo_query' # <<>> =>
                /\ geo_query' = normalize_address_for_geocoding(PageAddress, city)
                /\ Len(scraped') = Len(scraped) + 1
                /\ LET rec == Last(scraped')
                   IN [lat |-> rec.lat, lng |-> rec.lng] \in {GEOCODED, NoCoords}
      ]_vars

-----------------------------------------------------------------------------
(* _ensure_coords_and_notes: coordinates and the note for the classifier    *)
MaxFillRows == 3     \* rows of the data frame
MaxLimit    == 2     \* the budget geocode_limit

COLUMN_ORDER == <<"source", "external_id", "url", "title", "address_raw",
                  "address_formatted", "city", "district", "metro", "walk_metro_min",
                  "lat", "lng", "area_m2", "floor", "price_total", "price_per_m2",
                  "description", "seller_type", "seller_name", "published_at",
                  "last_seen_at", "status", "notes">>

DIGITS == <<"0", "1", "2", "3", "4", "5", "6", "7", "8", "9">>

(* str() of a natural number *)
RECURSIVE NatStr(_)
NatStr(n) == IF n < 10 THEN <<DIGITS[n + 1]>>
             ELSE NatStr(n \div 10) \o <<DIGITS[(n % 10) + 1]>>

(* what an f-string makes of a float: a coordinate is kept in tenths of a   *)
(* degree, 551 is 55.1 and -5 is -0.5                                       *)
float_str(x) ==
    LET m == IF x < 0 THEN 0 - x ELSE x
    IN (IF x < 0 THEN <<"-">> ELSE <<>>) \o NatStr(m \div 10) \o <<".">> \o NatStr(m % 10)

LAT_MARK == <<"l", "a", "t", " ", "=", " ">>
LNG_MARK == <<"l", "n", "g", " ", "=", " ">>
LAT_SEEN == <<"l", "a", "t", " ", "=">>

(* the note with the two coordinates in the other order *)
legacy_LngFirst(lat, lng) ==
    LAT_MARK \o float_str(lng) \o <<",", " ">> \o LNG_MARK \o float_str(lat)

(* lines 516 and 530: f"lat = {lat}, lng = {lng}" *)
legacy(lat, lng) ==
    LAT_MARK \o float_str(lat) \o <<",", " ">> \o LNG_MARK \o float_str(lng)

(* s.split(sep)[-1]: what follows the last sep, all of s when there is none *)
AfterLast(s, sep) ==
    LET at == {i \in 1..(Len(s) - Len(sep) + 1) : SubSeq(s, i, i + Len(sep) - 1) = sep}
    IN IF at = {} THEN s
       ELSE SubSeq(s, (CHOOSE i \in at : \A j \in at : j <= i) + Len(sep), Len(s))

(* s.split(',')[0] *)
BeforeComma(s) ==
    LET i == Find(s, {","}, 1)
    IN IF i = 0 THEN s ELSE SubSeq(s, 1, i - 1)

(* check_coordinates, lines 48-49 *)
parse_lat(coordinates) == BeforeComma(AfterLast(coordinates, LAT_MARK))
parse_lng(coordinates) == AfterLast(coordinates, LNG_MARK)

(* the rows a scraper hands over: with coordinates from the page, without   *)
(* them and with an address, without them and without address and title;    *)
(* notes is None in each (_new_row, line 150)                               *)
FillRow(lat, lng, address_raw) ==
    [lat |-> lat, lng |-> lng, notes |-> NoStr, address_raw |-> address_raw,
     title |-> NoStr, city |-> SEG_CITY]

FillRows ==
    { FillRow(<<551>>, <<372>>, STREET), FillRow(<<-5>>, <<0>>, NoStr),
      FillRow(<<>>, <<>>, STREET), FillRow(<<>>, <<>>, NoStr) }

(* geocode_address: None, or a result *)
NoGeo == [lat |-> <<>>, lng |-> <<>>]
FillReplies == {NoGeo, [lat |-> <<554>>, lng |-> <<-1203>>]}

FillInit ==
    /\ ClsIdle
    /\ UrlIdle
    /\ SaveIdle
    /\ AddrIdle
    /\ ScrIdle
    /\ ChkIdle
    /\ GeoIdle
    /\ frame \in UNION { [1..n -> FillRows] : n \in 0..MaxFillRows }
    /\ frame_in = frame
    /\ geocode_limit \in {<<>>} \cup { <<n>> : n \in 0..MaxLimit }
    /\ idx = 1
    /\ updated = 0
    /\ geo_calls = <<>>
    /\ fill_pc = "loop"

(* line 514: pd.notna(lat) and pd.notna(lng) *)
HasCoords(row) == row.lat # <<>> /\ row.lng # <<>>

(* the budget test without its bound *)
budget_spent_Never(limit, n) == FALSE

(* line 520: geocode_limit is not None and updated >= geocode_limit *)
budget_spent(limit, n) == limit # <<>> /\ n >= limit[1]

(* lines 511-532: one row of the loop *)
EnsureRow ==
    /\ fill_pc = "loop"
    /\ idx <= Len(frame)
    /\ LET row == frame[idx]
           query == normalize_address_for_geocoding(
                        IF row.address_raw # NoStr THEN row.address_raw ELSE row.title,
                        row.city)
       IN IF HasCoords(row)
          THEN /\ frame' = IF row.notes = NoStr \/ ~InSeq(LAT_SEEN, row.notes)
                           THEN [frame EXCEPT ![idx].notes = legacy(row.lat[1], row.lng[1])]
                           ELSE frame
               /\ UNCHANGED <<updated, geo_calls>>
          ELSE IF budget_spent(geocode_limit, updated) \/ query = <<>>
          THEN UNCHANGED <<frame, updated, geo_calls>>
          ELSE \E geo \in FillReplies :
                 /\ geo_calls' = Append(geo_calls,
                                    [idx |-> idx, updated |-> updated, q |-> query])
                 /\ IF geo = NoGeo
                    THEN UNCHANGED <<frame, updated>>
                    ELSE /\ frame' = [frame EXCEPT ![idx].lat = geo.lat,
                                                   ![idx].lng = geo.lng,
                                                   ![idx].notes = legacy(geo.lat[1], geo.lng[1])]
                         /\ updated' = updated + 1
    /\ idx' = idx + 1
    /\ UNCHANGED <<frame_in, geocode_limit, fill_pc>>
    /\ UNCHANGED nonFill

(* lines 509-510 and 533: return updated *)
ReturnUpdated ==
    /\ fill_pc = "loop"
    /\ idx > Len(frame)
    /\ fill_pc' = "done"
    /\ UNCHANGED <<frame, frame_in, geocode_limit, idx, updated, geo_calls>>
    /\ UNCHANGED nonFill

FillNext == EnsureRow \/ ReturnUpdated

FillSpec == FillInit /\ [][FillNext]_vars

(* the rows geocode_address was called for *)
Called == { geo_calls[k].idx : k \in 1..Len(geo_calls) }

(* the rows that got their coordinates from the geocoder *)
Filled == { i \in 1..Len(frame) : ~HasCoords(frame_in[i]) /\ HasCoords(frame[i]) }

(* C23: with a budget n at most n rows are filled by geocoding and no       *)
(* geocode_address call is made once n rows are filled (none when n = 0);   *)
(* a row that came with coordinates has its note written without a call     *)
(* and without taking from the budget, also behind the row that spent it;   *)
(* without a budget every row that lacks coordinates is attempted.          *)
C23_BackfillBudget ==
    /\ updated = Cardinality(Filled)
    /\ geocode_limit # <<>> =>
          /\ Cardinality(Filled) <= geocode_limit[1]
          /\ \A k \in 1..Len(geo_calls) : geo_calls[k].updated < geocode_limit[1]
    /\ \A i \in 1..(idx - 1) :
          HasCoords(frame_in[i]) =>
              /\ i \notin Called
              /\ frame[i].notes = legacy(frame[i].lat[1], frame[i].lng[1])
              /\ frame[i].lat = frame_in[i].lat /\ frame[i].lng = frame_in[i].lng
    /\ geocode_limit = <<>> =>
          \A i \in 1..(idx - 1) : ~HasCoords(frame_in[i]) => i \in Called

(* C23 witness: budget 1, the first row was filled by the geocoder, the     *)
(* second lacks coordinates and was not attempted, the third came with      *)
(* coordinates and has its note                                             *)
C23_Witness ==
    /\ fill_pc = "done"
    /\ geocode_limit = <<1>>
    /\ Len(frame) = 3
    /\ Filled = {1}
    /\ Called = {1}
    /\ ~HasCoords(frame[2])
    /\ HasCoords(frame_in[3]) /\ frame[3].notes # NoStr

(* C24: after the backfill every row with lat and lng has in the column     *)
(* notes, the column COLUMN_COORDINATES of COLUMN_ORDER, the text           *)
(* "lat = <lat>, lng = <lng>" of its own coordinates, every row without     *)
(* coordinates has no note, and the parsing of check_coordinates gives      *)
(* back the lat and the lng of the row.                                     *)
C24_NoteRoundTrip ==
    /\ COLUMN_ORDER[COLUMN_COORDINATES] = "notes"
    /\ fill_pc = "done" =>
          \A i \in 1..Len(frame) :
              IF HasCoords(frame[i])
              THEN /\ frame[i].notes =
                         LAT_MARK \o float_str(frame[i].lat[1]) \o <<",", " ">>
                                  \o LNG_MARK \o float_str(frame[i].lng[1])
                   /\ parse_lat(frame[i].notes) = float_str(frame[i].lat[1])
                   /\ parse_lng(frame[i].notes) = float_str(frame[i].lng[1])
              ELSE frame[i].notes = NoStr

(* C24 witness: the backfill is over for a frame with a row whose           *)
(* coordinates came from the page, a row the geocoder filled and a row      *)
(* left without coordinates                                                 *)
C24_Witness ==
    /\ fill_pc = "done"
    /\ \E i, j, k \in 1..Len(frame) :
          /\ HasCoords(frame_in[i]) /\ frame[i].lat[1] < 0
          /\ j \in Filled
          /\ ~HasCoords(frame[k])

-----------------------------------------------------------------------------
(* check_coordinates applied to every reply fetch_page can hand over        *)
ChkInit ==
    /\ ClsIdle
    /\ UrlIdle
    /\ SaveIdle
    /\ AddrIdle
    /\ ScrIdle
    /\ FillIdle
    /\ GeoIdle
    /\ reply \in fetch_page
    /\ returned = NotYet

Classify ==
    /\ returned = NotYet
    /\ returned' = check_coordinates(reply)
    /\ UNCHANGED reply
    /\ UNCHANGED nonChk

ChkNext == Classify

ChkSpec == ChkInit /\ [][ChkNext]_vars

(* the status the claim gives to a reply of the service *)
Precedence(response) ==
    IF response.description = RED_DESCRIPTION THEN RED
    ELSE IF response.description = PVZ_DESCRIPTION THEN PVZ
    ELSE IF response.point_info = "object" /\ response.priority = "new_build_zones" THEN PINK
    ELSE IF response.point_info = "object" /\ response.priority = "load_predict" THEN PURPLE
    ELSE IF response.point_info = "object" /\ response.zone = "green_zone" THEN GREEN
    ELSE NA

-----------------------------------------------------------------------------
(* C26: when set_status_to_table writes pink or purple, every cell of the   *)
(* row carries the fill of that zone afterwards, the cell of column         *)
(* COLUMN_COLOR too, also in a table that had NCOLUMNS columns; when it     *)
(* writes anything else no fill of the row changes.                         *)
C26_RowHighlighting ==
    [][ pc = "write" /\ pc' = "loop" =>
          LET before == Row(ws, row_num)
              after == Row(ws', row_num)
          IN /\ color_to_write = PURPLE =>
                    after.fill = PURPLE_FILL /\ after.fillColor = PURPLE_FILL
             /\ color_to_write = PINK =>
                    after.fill = PINK_FILL /\ after.fillColor = PINK_FILL
             /\ color_to_write \notin Terminal =>
                    after.fill = before.fill /\ after.fillColor = before.fillColor
      ]_vars

-----------------------------------------------------------------------------
(* C27: the classifier step is started only after the table was written; a  *)
(* failure of that step (non-zero exit, no launch) is logged and not        *)
(* raised: save_and_check returns and the written table is in place.        *)
C27_ClassifierHandOff ==
    /\ checker # "none" =>
          /\ sa_pc = "returned"
          /\ xlsx = [exists |-> TRUE, rows |-> df]
          /\ sa_errors = IF checker = "exit 0" THEN <<>> ELSE <<CHECKER_FAILED>>
    /\ sa_pc \in {"start", "deduplicated", "written", "raised"} => checker = "none"

(* C27 witness: the classifier could not be launched after a table with     *)
(* rows was written                                                         *)
C27_Witness ==
    /\ sa_pc = "returned"
    /\ checker = "not launched"
    /\ xlsx.rows # <<>>

-----------------------------------------------------------------------------
(* geocode_address and its cache                                            *)
MaxGeoCalls == 3     \* calls of geocode_address in one process

GEOCODE_TRIES == 3

UpperOf == [c \in {LOWER[i] : i \in 1..Len(LOWER)} |->
               UPPER[CHOOSE i \in 1..Len(LOWER) : LOWER[i] = c]]

(* str.capitalize() *)
Capitalize(s) ==
    IF s = <<>> THEN s
    ELSE <<IF s[1] \in DOMAIN UpperOf THEN UpperOf[s[1]] ELSE s[1]>> \o LowerSeq(Tail(s))

MOSCOW_BOX == "37.3193,56.061,37.9678,55.4899"
NAO_BOX    == "37.05,55.75,37.7,55.3"

SEG_NAO == <<"N", "A", "O">>

(* settings.CITY_VIEWBOX with its boxes as line 77 writes them; None for a  *)
(* name that is no key                                                      *)
CITY_VIEWBOX(name) ==
    IF name \in {SEG_CITY, <<"M", "o", "s", "c", "o", "w">>} THEN MOSCOW_BOX
    ELSE IF name \in {SEG_NAO, CITY_PARENS} THEN NAO_BOX
    ELSE None

(* lines 72-79: params.get("viewbox") *)
viewbox(c) ==
    IF c = NoStr THEN None
    ELSE IF CITY_VIEWBOX(c) # None THEN CITY_VIEWBOX(c)
    ELSE CITY_VIEWBOX(Capitalize(c))

(* line 81: the key, a JSON text of q, city and vb; the record stands for   *)
(* the text, which is different for different records                       *)
CacheKey(q, c) == [q |-> q, city |-> c, vb |-> viewbox(c)]

GeoQueries == {STREET, EXAMPLE_FORMATTED}
GeoCities  == {NoStr, SEG_CITY, LowerSeq(SEG_CITY), SEG_NAO}

(* the results the service can give for a query, at one time and another *)
GeoResults == {[lat |-> <<554>>, lng |-> <<-1203>>], [lat |-> <<557>>, lng |-> <<376>>]}

(* every reply is stored *)
stored_reply_Any(data) == TRUE

(* lines 90-93: if data: the result is stored and returned *)
stored_reply(data) == data # NoGeo

GeoInit ==
    /\ ClsIdle
    /\ UrlIdle
    /\ SaveIdle
    /\ AddrIdle
    /\ ScrIdle
    /\ FillIdle
    /\ ChkIdle
    /\ geocode_cache = <<>>
    /\ first_result = <<>>
    /\ last_call = NoCall
    /\ calls_made = 0

(* lines 82-83: the key is in the cache *)
CacheHit ==
    /\ calls_made < MaxGeoCalls
    /\ \E q \in GeoQueries, c \in GeoCities :
         LET key == CacheKey(q, c)
         IN /\ key \in DOMAIN geocode_cache
            /\ last_call' = [key |-> key, cached |-> TRUE, requests |-> 0,
                             result |-> geocode_cache[key]]
    /\ calls_made' = calls_made + 1
    /\ UNCHANGED <<geocode_cache, first_result>>
    /\ UNCHANGED nonGeo

(* lines 84-99: up to GEOCODE_TRIES requests; the loop ends on the first    *)
(* reply, a result or an empty list, or after the last request raised       *)
CacheMiss ==
    /\ calls_made < MaxGeoCalls
    /\ \E q \in GeoQueries, c \in GeoCities :
         LET key == CacheKey(q, c)
         IN /\ key \notin DOMAIN geocode_cache
            /\ \E n \in 1..GEOCODE_TRIES, end \in {"result", "empty", "raised"},
                  data \in GeoResults :
                 /\ end = "raised" => n = GEOCODE_TRIES
                 /\ LET result == IF end = "result" THEN data ELSE NoGeo
                    IN /\ last_call' = [key |-> key, cached |-> FALSE, requests |-> n,
                                        result |-> result]
                       /\ geocode_cache' =
                             IF end # "raised" /\ stored_reply(result)
                             THEN (key :> result) @@ geocode_cache
                             ELSE geocode_cache
                       /\ first_result' =
                             IF result # NoGeo /\ key \notin DOMAIN first_result
                             THEN (key :> result) @@ first_result
                             ELSE first_result
    /\ calls_made' = calls_made + 1
    /\ UNCHANGED nonGeo

GeoNext == CacheHit \/ CacheMiss

GeoSpec == GeoInit /\ [][GeoNext]_vars

(* C28: a call with a key that got a successful result before returns that *)
(* result without a request; the cache holds the successful results and    *)
(* nothing else, so a call with a key that only got empty replies or        *)
(* failures queries the service again.                                      *)
C28_GeocodeCache ==
    /\ geocode_cache = first_result
    /\ \A key \in DOMAIN geocode_cache : geocode_cache[key] # NoGeo
    /\ calls_made > 0 =>
          /\ last_call.cached =>
                /\ last_call.requests = 0
                /\ last_call.result = first_result[last_call.key]
          /\ ~last_call.cached =>
                /\ last_call.requests \in 1..3
                /\ last_call.result = NoGeo => last_call.key \notin DOMAIN geocode_cache
                /\ last_call.result # NoGeo =>
                      geocode_cache[last_call.key] = last_call.result

(* C28 witness: the third call was answered from the cache while another   *)
(* call had come back without a result                                      *)
C28_Witness ==
    /\ calls_made = 3
    /\ last_call.cached
    /\ Cardinality(DOMAIN geocode_cache) = 1

-----------------------------------------------------------------------------
(* C29: in the stored table, after any passes, a row has the pink fill      *)
(* exactly when its classification is pink and the purple fill exactly      *)
(* when it is purple.                                                       *)
C29_FillMatchesText ==
    \A i \in 1..Len(stored.rows) :
        LET row == stored.rows[i]
        IN /\ row.fill = PINK_FILL <=> row.color = PINK
           /\ row.fill = PURPLE_FILL <=> row.color = PURPLE

-----------------------------------------------------------------------------
(* the different links of a list *)
Distinct(seq) == { seq[i] : i \in 1..Len(seq) }

(* the place where a link of a list stands for the first time *)
FirstAt(seq, key) ==
    CHOOSE i \in 1..Len(seq) : seq[i] = key /\ \A j \in 1..(i - 1) : seq[j] # key

(* a link is the k-th different link of a list, in the order of first       *)
(* occurrence, when k - 1 different links stand before its first place      *)
IsKthLink(seq, key, k) ==
    /\ key \in Distinct(seq)
    /\ Cardinality(Distinct(SubSeq(seq, 1, FirstAt(seq, key) - 1))) = k - 1

(* how far a run has come: the page, then the link, the attempt and the     *)
(* stage within the page; a finished run is furthest                        *)
Progress ==
    IF scr_pc = "done" THEN (pages + 1) * 1000
    ELSE IF scr_pc = "search" THEN page_no * 1000
    ELSE page_no * 1000 + link * 8 + attempt * 2 + (IF scr_pc = "parse" THEN 1 ELSE 0)

(* C30: a run requests the search pages 1, 2, ... once each and never more  *)
(* than pages of them; for a search page it requests only the first 40      *)
(* different links of the page, in the order of their first occurrence,     *)
(* never going back to a link and requesting each at most 3 times, which    *)
(* is at most 120 requests for the page; and every step brings the run      *)
(* nearer to its end.                                                       *)
C30_BoundedWork ==
    [][ /\ Len(page_log') <= pages
        /\ \A i \in 1..Len(page_log') : page_log'[i].p = i
        /\ links' <= 40
        /\ links' = Min(Cardinality(Distinct(hrefs')), 40)
        /\ 3 * links' <= 120
        /\ scr_pc = "fetch" =>
              /\ link <= links
              /\ requests'.link = link
              /\ IsKthLink(hrefs, requests'.href, link)
              /\ requests'.n <= 3
              /\ requests'.n = IF requests.p = page_no /\ requests.link = link
                               THEN requests.n + 1 ELSE 1
        /\ scr_pc # "search" /\ scr_pc' = "fetch" => link' \in {link, link + 1}
        /\ Progress' > Progress
      ]_vars

(* C30 witness: a search page of 41 different links, the first one twice:   *)
(* the run is over after the third request for link 40, its last link       *)
C30_Witness ==
    /\ scr_pc = "done"
    /\ Len(hrefs) = 42 /\ Cardinality(Distinct(hrefs)) = 41
    /\ requests.link = 40 /\ requests.href = 40 /\ requests.n = 3

====
